---- MODULE Spec2Model ----
(***************************************************************************)
(* A model of week2_homework_solution.ipynb: the JSON flattening           *)
(* (get_flattened_events, get_examinee_info,                               *)
(* get_examinee_event_data_frame) and the XML traversal                    *)
(* (traverse_xml_tree, get_customer_name, extract_time_session_events).    *)
(*                                                                         *)
(* Python values are tagged records, so that values of different Python    *)
(* types can be compared: S("a") is the str 'a', I(3) the int 3, None is   *)
(* None.  A dict is a function on its keys; a dict whose order matters     *)
(* (a session) is the sequence of its items.  A call returns Ok(v) or      *)
(* Raise(e), e the name of the exception that leaves the call.             *)
(***************************************************************************)
EXTENDS Integers, Sequences, FiniteSets, TLC

\* ---------------------------------------------------------------- bounds
MaxInteractions == 2
MaxEvents == 2
MaxSessions == 2
MaxHeartBeats == 2
MaxNodes == 4
MaxTestEvents == 2

VARIABLES
    heartbeat,        \* the argument of get_flattened_events
    all_event_data,   \* what get_flattened_events returned
    data,             \* the notebook's global `data` (the loaded JSON)
    df,               \* what get_examinee_event_data_frame returned
    pc,               \* which cell has run, or where the XML parsing call is
    tree,             \* the parsed XML tree given to extract_time_session_events
    heap,             \* the list objects of the traversal: heap[1] is `stack`
    frames,           \* the active calls of _traverse_xml_tree, innermost last
    visited,          \* the elements _traverse_xml_tree was entered for, in order
    emitted,          \* the (path, fields) pairs yielded so far
    records,          \* the pairs the comprehension of `records` kept so far
    table             \* what extract_time_session_events returned

jsonVars == <<heartbeat, all_event_data, data, df>>
xmlVars == <<tree, heap, frames, visited, emitted, records, table>>
vars == <<heartbeat, all_event_data, data, df, pc, tree, heap, frames, visited,
          emitted, records, table>>

\* ---------------------------------------------------------- Python values
S(s) == [str |-> s]
I(i) == [int |-> i]
None == [none |-> TRUE]

Ok(v) == [error |-> "", value |-> v]
Raise(e) == [error |-> e, value |-> <<>>]
Unset == [error |-> "unset", value |-> <<>>]
IsOk(r) == r.error = ""
IsError(r) == r.error \notin {"", "unset"}

RECURSIVE Concat(_)
\* The concatenation of a sequence of sequences (a nested comprehension).
Concat(ss) == IF ss = <<>> THEN <<>> ELSE Head(ss) \o Concat(Tail(ss))

RECURSIVE SeqsUpTo(_, _)
\* The sequences over pool of length at most n (the inputs' lists).
SeqsUpTo(pool, n) ==
    IF n = 0 THEN {<<>>}
    ELSE LET shorter == SeqsUpTo(pool, n - 1)
         IN shorter \cup {Append(s, x) : s \in {t \in shorter : Len(t) = n - 1}, x \in pool}

Repeat(x, n) == [j \in 1..n |-> x]

\* ------------------------------------------------ the union event schema
interaction_columns == <<"interactionId", "interactionType", "value", "time">>
event_columns == <<"type", "action", "time", "itemId", "from", "to">>
all_event_columns == <<"event_type">> \o interaction_columns \o event_columns

\* ------------------------------------------------- get_flattened_events
\* The keys an event is read at unconditionally.
EventRequiredKeys == {"type", "action", "time", "itemId"}

\* event["value"]["from"] if "value" in event else None (and the same for "to").
EventValueRaises(event) ==
    "value" \in DOMAIN event /\ ~({"from", "to"} \subseteq DOMAIN event["value"])

EventValueField(event, key) ==
    IF "value" \in DOMAIN event THEN event["value"][key] ELSE None

\* One element of `events`: a 6-tuple.
EventTuple(event) ==
    <<event["type"], event["action"], event["time"], event["itemId"],
      EventValueField(event, "from"), EventValueField(event, "to")>>

\* The elements of `interactions` one interaction contributes: one triple
\* (interaction_id, key, interaction[key]) for each key of interaction_columns.
InteractionTuples(interaction_id, interaction) ==
    [j \in 1..Len(interaction_columns) |->
        <<I(interaction_id), S(interaction_columns[j]),
          interaction[interaction_columns[j]]>>]

\* enumerate() counts from 0.
FlatInteractions(hb) ==
    Concat([i \in 1..Len(hb["interactions"]) |->
                InteractionTuples(i - 1, hb["interactions"][i])])

FlatEvents(hb) == [i \in 1..Len(hb["events"]) |-> EventTuple(hb["events"][i])]

InteractionRow(interaction) ==
    <<S("interaction")>> \o interaction \o Repeat(None, Len(event_columns))

EventRow(event) ==
    <<S("event")>> \o Repeat(None, Len(interaction_columns)) \o event

\* A slip that would put the event rows before the interaction rows.
AllEventData_EventsFirst(interactions, events) ==
    [i \in 1..Len(events) |-> EventRow(events[i])]
    \o [i \in 1..Len(interactions) |-> InteractionRow(interactions[i])]

AllEventData(interactions, events) ==
    [i \in 1..Len(interactions) |-> InteractionRow(interactions[i])]
    \o [i \in 1..Len(events) |-> EventRow(events[i])]

\* A missing key raises KeyError.  The local `heartbeats` (the other fields of
\* the heartbeat) is computed and never used.
get_flattened_events(hb) ==
    IF \/ \E i \in 1..Len(hb["interactions"]) : \E j \in 1..Len(interaction_columns) :
              interaction_columns[j] \notin DOMAIN hb["interactions"][i]
       \/ \E i \in 1..Len(hb["events"]) :
              \/ ~(EventRequiredKeys \subseteq DOMAIN hb["events"][i])
              \/ EventValueRaises(hb["events"][i])
    THEN Raise("KeyError")
    ELSE Ok(AllEventData(FlatInteractions(hb), FlatEvents(hb)))

\* ------------------------------------------------------------ the inputs
InteractionPool ==
    { [interactionId |-> S("i1"), interactionType |-> S("click"),
       value |-> S("A"), time |-> I(11)],
      [interactionId |-> S("i2"), interactionType |-> S("key"),
       value |-> S("B"), time |-> I(12)],
      [interactionType |-> S("click"), value |-> S("A"), time |-> I(11)] }

EventBase(item) ==
    [type |-> S("item"), action |-> S("enter"), time |-> I(21), itemId |-> S(item)]

EventPool ==
    UNION { { EventBase(item),
              [type |-> S("item"), action |-> S("change"), time |-> I(22),
               itemId |-> S(item), value |-> [from |-> S("A"), to |-> S("B")]],
              [type |-> S("item"), action |-> S("change"), time |-> I(23),
               itemId |-> S(item), value |-> [from |-> S("A")]] }
            : item \in {"q1", "q2"} }

Heartbeat(interactions, events) ==
    [heartBeatId |-> I(1), interactions |-> interactions, events |-> events]

HeartbeatInputs ==
    { Heartbeat(is, es) : is \in SeqsUpTo(InteractionPool, MaxInteractions),
                          es \in SeqsUpTo(EventPool, MaxEvents) }

NoData == [TestSessions |-> <<>>]

\* ------------------------------------------------------------ pd.DataFrame
RECURSIVE MaxLen(_)
MaxLen(rows) ==
    IF rows = <<>> THEN 0
    ELSE LET m == MaxLen(Tail(rows))
         IN IF Len(Head(rows)) > m THEN Len(Head(rows)) ELSE m

\* pd.DataFrame(rows, columns = columns) on a list of tuples, as the notebook
\* calls it: pandas pads a shorter tuple with None on the right up to the
\* longest one, and raises when the longest has not len(columns) entries; an
\* empty list gives the empty table with these columns.
DataFrame(rows, columns) ==
    IF rows # <<>> /\ MaxLen(rows) # Len(columns)
    THEN Raise("ValueError")
    ELSE Ok([columns |-> columns,
             rows |-> [r \in 1..Len(rows) |->
                          rows[r] \o Repeat(None, Len(columns) - Len(rows[r]))]])

\* ------------------------------------------------- the examinee metadata
Item(k, v) == [key |-> k, value |-> v]

\* session[key], the session being the sequence of its items.
DictGet(session, key) ==
    session[CHOOSE j \in 1..Len(session) : session[j].key = key].value

IsNotHeartBeats(item) == item.key # "HeartBeats"

\* The items of a session but its "HeartBeats", in the dict's order.
ScalarItems(session) == SelectSeq(session, IsNotHeartBeats)

ItemKeys(items) == [j \in 1..Len(items) |-> items[j].key]
ItemValues(items) == [j \in 1..Len(items) |-> items[j].value]

\* The global examinee_columns: the keys of the first session.
examinee_columns == ItemKeys(ScalarItems(data["TestSessions"][1]))

\* get_examinee_info reads the global data['TestSessions'][0], whatever
\* session it is given.
get_examinee_info(session) == ItemValues(ScalarItems(data["TestSessions"][1]))

\* The rows one session contributes, given the session's flattened events.
SessionRows(session_id, session, events) ==
    [e \in 1..Len(events) |-> <<I(session_id)>> \o get_examinee_info(session) \o events[e]]

FirstHeartBeat(session) == DictGet(session, "HeartBeats")[1]

get_examinee_event_data_frame(d) ==
    LET sessions == d["TestSessions"]
        all_columns == <<"session_id">> \o examinee_columns \o all_event_columns
    IN IF \E i \in 1..Len(sessions) : DictGet(sessions[i], "HeartBeats") = <<>>
       THEN Raise("IndexError")
       ELSE IF \E i \in 1..Len(sessions) :
                   IsError(get_flattened_events(FirstHeartBeat(sessions[i])))
       THEN Raise("KeyError")
       ELSE DataFrame(
                Concat([i \in 1..Len(sessions) |->
                    SessionRows(i - 1, sessions[i],
                                get_flattened_events(FirstHeartBeat(sessions[i])).value)]),
                all_columns)

\* ------------------------------------------------- the sessions' inputs
GoodInteraction ==
    [interactionId |-> S("i1"), interactionType |-> S("click"),
     value |-> S("A"), time |-> I(11)]

FirstHeartBeatPool ==
    { Heartbeat(<<>>, <<>>),
      Heartbeat(<<GoodInteraction>>, <<>>),
      Heartbeat(<<>>, <<EventBase("q1")>>),
      Heartbeat(<<GoodInteraction>>, <<EventBase("q1")>>) }

\* What a further HeartBeats entry may be.
ExtraHeartBeatPool == { Heartbeat(<<GoodInteraction>>, <<EventBase("q2")>>) }

Session(examinee, heartbeats) ==
    <<Item("ExamineeIdentifier", S(examinee)),
      Item("HeartBeats", heartbeats),
      Item("TestForm", S("form1"))>>

SessionInputs ==
    { Session(e, <<hb>> \o more) :
        e \in {"e1", "e2"}, hb \in FirstHeartBeatPool,
        more \in SeqsUpTo(ExtraHeartBeatPool, MaxHeartBeats - 1) }

DataInputs ==
    { [TestSessions |-> ss] : ss \in SeqsUpTo(SessionInputs, MaxSessions) \ {<<>>} }

NoHeartbeat == Heartbeat(<<>>, <<>>)

\* No XML tree is being parsed.
XmlIdle ==
    /\ tree = [parent |-> <<>>, tag |-> <<>>, text |-> <<>>]
    /\ heap = <<>>
    /\ frames = <<>>
    /\ visited = <<>>
    /\ emitted = <<>>
    /\ records = <<>>
    /\ table = Unset

\* ------------------------------------------------------ the flatten cell
InitFlatten ==
    /\ heartbeat \in HeartbeatInputs
    /\ all_event_data = Unset
    /\ data = NoData
    /\ df = Unset
    /\ pc = "start"
    /\ XmlIdle

CallGetFlattenedEvents ==
    /\ pc = "start"
    /\ all_event_data' = get_flattened_events(heartbeat)
    /\ pc' = "done"
    /\ UNCHANGED <<heartbeat, data, df>>
    /\ UNCHANGED xmlVars

NextFlatten == CallGetFlattenedEvents

SpecFlatten == InitFlatten /\ [][NextFlatten]_vars

\* --------------------------------------------------- the data frame cell
InitJoin ==
    /\ data \in DataInputs
    /\ df = Unset
    /\ heartbeat = NoHeartbeat
    /\ all_event_data = Unset
    /\ pc = "start"
    /\ XmlIdle

\* df = get_examinee_event_data_frame(data)
CallGetExamineeEventDataFrame ==
    /\ pc = "start"
    /\ df' = get_examinee_event_data_frame(data)
    /\ pc' = "done"
    /\ UNCHANGED <<heartbeat, all_event_data, data>>
    /\ UNCHANGED xmlVars

NextJoin == CallGetExamineeEventDataFrame

SpecJoin == InitJoin /\ [][NextJoin]_vars

\* ============================================================ XML
\* A tag is the list tag.split("}") gives: <<"{uri", "Name">> for the
\* namespace-qualified "{uri}Name", <<"Name">> for a tag without a namespace.
Q(name) == <<"{u", name>>
U(name) == <<name>>

\* Whether tag.split("}") has an element [1].
HasIndex1(tag) == Len(tag) >= 2

\* tag.split("}")[1]; IndexError unless HasIndex1(tag).
unqualified_tag_name(tag) == tag[2]

\* A text is None or T(chars), chars the sequence of its characters.
T(chars) == [chars |-> chars]

RECURSIVE LStrip(_)
LStrip(chars) ==
    IF chars # <<>> /\ Head(chars) = " " THEN LStrip(Tail(chars)) ELSE chars

RECURSIVE RStrip(_)
RStrip(chars) ==
    IF chars # <<>> /\ chars[Len(chars)] = " "
    THEN RStrip(SubSeq(chars, 1, Len(chars) - 1)) ELSE chars

\* str.strip()
Strip(chars) == RStrip(LStrip(chars))

\* ----------------------------------------------------------- the tree
\* Elements are 1..Len(tree.parent), the root is 1, and iterating an element
\* gives its children in document order (here: by number).
Elements == 1..Len(tree.parent)

RECURSIVE SortedSeq(_)
SortedSeq(set) ==
    IF set = {} THEN <<>>
    ELSE LET m == CHOOSE x \in set : \A y \in set : x <= y
         IN <<m>> \o SortedSeq(set \ {m})

Children(e) == SortedSeq({c \in Elements : tree.parent[c] = e})

\* c.text and len(c.text.strip()) > 0
HasText(c) ==
    /\ tree.text[c] # None
    /\ tree.text[c].chars # <<>>
    /\ Len(Strip(tree.text[c].chars)) > 0

\* The children get_nested_element_data makes a pair of.
TextChildren(e) == SelectSeq(Children(e), HasText)

\* get_nested_element_data raises when a child with text has no "}" in its tag.
NestedDataRaises(e) ==
    \E j \in 1..Len(TextChildren(e)) : ~HasIndex1(tree.tag[TextChildren(e)[j]])

get_nested_element_data(e) ==
    [j \in 1..Len(TextChildren(e)) |->
        <<unqualified_tag_name(tree.tag[TextChildren(e)[j]]),
          T(Strip(tree.text[TextChildren(e)[j]].chars))>>]

\* --------------------------------------------------- the ancestor stack
StackRef == 1

\* A slip that would yield the stack itself instead of a copy of it.
stack_alias(h, ref) == [heap |-> h, ref |-> ref]

\* stack.copy(): a new list object with the elements of the list at ref.
stack_copy(h, ref) == [heap |-> Append(h, h[ref]), ref |-> Len(h) + 1]

\* stack.append(element)
StackAppend(h, e) == [h EXCEPT ![StackRef] = Append(@, e)]

\* stack.pop()
StackPop(h) == [h EXCEPT ![StackRef] = SubSeq(@, 1, Len(@) - 1)]

\* ------------------------------------------- extract_time_session_events
SessionEventPath == <<"CustomerRecord", "CustomerEventData", "TestSessionEvent">>

columns ==
    <<"FirstName", "LastName", "SequenceNo", "TimeStamp", "TestComponentCode",
      "DetailText">>

\* The comprehension's condition raises when a tag of the path has no "}".
FilterRaises(path) == \E j \in 1..Len(path) : ~HasIndex1(tree.tag[path[j]])

\* [unqualified_tag_name(parent.tag) for parent in entry[0]] == [...]
FilterKeeps(path) ==
    [j \in 1..Len(path) |-> unqualified_tag_name(tree.tag[path[j]])] = SessionEventPath

\* The first child that ends the search of first_child_with_name, if any: one
\* that matches, or one whose tag makes unqualified_tag_name raise.
StopsSearch(c, child_name) ==
    ~HasIndex1(tree.tag[c]) \/ unqualified_tag_name(tree.tag[c]) = child_name

first_child_with_name(node, child_name) ==
    LET cs == Children(node)
        hits == {j \in 1..Len(cs) : StopsSearch(cs[j], child_name)}
    IN IF hits = {} THEN Raise("StopIteration")
       ELSE LET j == CHOOSE x \in hits : \A y \in hits : x <= y
            IN IF HasIndex1(tree.tag[cs[j]]) THEN Ok(cs[j]) ELSE Raise("IndexError")

\* A slip that would give a name of nulls when the lookup fails.
get_customer_name_Default(h, record) == Ok(<<None, None>>)

get_customer_name(h, record) ==
    IF h[record.path] = <<>> THEN Raise("IndexError")
    ELSE LET event_data == first_child_with_name(h[record.path][1], "CustomerResultData")
         IN IF IsError(event_data) THEN event_data
            ELSE LET customer_name == first_child_with_name(event_data.value, "CustomerName")
                 IN IF IsError(customer_name) THEN customer_name
                    ELSE IF Len(Children(customer_name.value)) < 2 THEN Raise("IndexError")
                    ELSE Ok(<<tree.text[Children(customer_name.value)[1]],
                              tree.text[Children(customer_name.value)[2]]>>)

FieldValues(fields) == [j \in 1..Len(fields) |-> fields[j][2]]

\* Lines 318-320: the rows of `data`, then the table.
BuildTable(h, recs) ==
    IF \E r \in 1..Len(recs) : IsError(get_customer_name(h, recs[r]))
    THEN LET r == CHOOSE x \in 1..Len(recs) :
                     /\ IsError(get_customer_name(h, recs[x]))
                     /\ \A y \in 1..(x - 1) : ~IsError(get_customer_name(h, recs[y]))
         IN Raise(get_customer_name(h, recs[r]).error)
    ELSE DataFrame([r \in 1..Len(recs) |->
                       get_customer_name(h, recs[r]).value \o FieldValues(recs[r].fields)],
                   columns)

\* ------------------------------------------------------- the input trees
TextPool == {None, T(<<" ">>), T(<<" ", "x", " ">>)}

\* The shapes of at most MaxNodes elements: a parent has a smaller number.
ParentMaps ==
    UNION { {<<0>> \o p : p \in [1..(n - 1) -> 1..n]} : n \in 1..MaxNodes }

WellFormedParents(p) == \A c \in 2..Len(p) : p[c] < c

\* Every tag "{u}item" but at most one, which is "item".
GenericTags(n) ==
    { [c \in 1..n |-> IF c = k THEN U("item") ELSE Q("item")] : k \in 0..n }

GenericTexts(n) ==
    { <<None>> \o t : t \in [1..(n - 1) -> TextPool] }

GenericTrees ==
    UNION { { [parent |-> p, tag |-> g, text |-> t] :
                g \in GenericTags(Len(p)), t \in GenericTexts(Len(p)) }
            : p \in {q \in ParentMaps : WellFormedParents(q)} }

\* A tree with one more element, under parent p.
AddChild(t, p, tag, text) ==
    [parent |-> Append(t.parent, p), tag |-> Append(t.tag, tag),
     text |-> Append(t.text, text)]

RECURSIVE AddChildren(_, _, _, _)
\* n children under p, tagged and texted alike.
AddChildren(t, p, tags, text) ==
    IF tags = <<>> THEN t
    ELSE AddChildren(AddChild(t, p, Head(tags), text), p, Tail(tags), text)

EventFieldNames == <<"SequenceNo", "TimeStamp", "TestComponentCode", "DetailText">>

RECURSIVE AddSessionEvents(_, _, _, _, _)
\* n session events under the event data element p, each with its fields.
AddSessionEvents(t, p, n, sessionTag, nFields) ==
    IF n = 0 THEN t
    ELSE LET t1 == AddChild(t, p, sessionTag, None)
             t2 == AddChildren(t1, Len(t1.parent),
                               [j \in 1..nFields |-> Q(EventFieldNames[j])],
                               T(<<" ", "8">>))
         IN AddSessionEvents(t2, p, n - 1, sessionTag, nFields)

\* The customer's result data under the record element p: absent, without a
\* CustomerName, or with a CustomerName of 0, 1 or 2 children.
AddResultData(t, p, result) ==
    IF result = "none" THEN t
    ELSE LET t1 == AddChild(t, p, Q("CustomerResultData"), None)
             crd == Len(t1.parent)
         IN IF result = "noName" THEN AddChild(t1, crd, Q("Other"), None)
            ELSE LET t2 == AddChild(t1, crd, Q("CustomerName"), None)
                     nNames == IF result = "name0" THEN 0
                               ELSE IF result = "name1" THEN 1 ELSE 2
                 IN AddChildren(t2, Len(t2.parent),
                                SubSeq(<<Q("FirstName"), Q("LastName")>>, 1, nNames),
                                T(<<"N">>))

CustomerTree(wrapped, recordTag, sessionTag, result, nEvents, nFields) ==
    LET t0 == IF wrapped
              THEN AddChild([parent |-> <<0>>, tag |-> <<Q("Export")>>, text |-> <<None>>],
                            1, recordTag, None)
              ELSE [parent |-> <<0>>, tag |-> <<recordTag>>, text |-> <<None>>]
        rec == Len(t0.parent)
        t1 == AddChild(t0, rec, Q("CustomerEventData"), None)
        t2 == AddSessionEvents(t1, Len(t1.parent), nEvents, sessionTag, nFields)
    IN AddResultData(t2, rec, result)

CustomerTrees ==
    { CustomerTree(w, rt, st, res, ne, nf) :
        w \in BOOLEAN,
        rt \in {Q("CustomerRecord"), U("CustomerRecord")},
        st \in {Q("TestSessionEvent"), Q("testsessionevent"), <<"{v", "TestSessionEvent">>},
        res \in {"none", "noName", "name0", "name1", "name2"},
        ne \in 0..MaxTestEvents,
        nf \in {3, 4} }

\* ------------------------------------------------------- the parsing call
\* extract_time_session_events(root) has started: the comprehension of
\* `records` is about to draw from traverse_xml_tree(root), whose first call
\* is _traverse_xml_tree(root, []).
Init ==
    /\ tree \in GenericTrees \cup CustomerTrees
    /\ heap = << <<>> >>
    /\ frames = <<[element |-> 1, next |-> 0]>>
    /\ visited = <<>>
    /\ emitted = <<>>
    /\ records = <<>>
    /\ table = Unset
    /\ pc = "walk"
    /\ heartbeat = NoHeartbeat
    /\ all_event_data = Unset
    /\ data = NoData
    /\ df = Unset

Top == frames[Len(frames)]
SetNext(k) == [frames EXCEPT ![Len(frames)].next = k]
Entering == pc = "walk" /\ frames # <<>> /\ Top.next = 0

\* stack.append(element); get_nested_element_data raises.
EnterRaise ==
    /\ Entering
    /\ NestedDataRaises(Top.element)
    /\ heap' = StackAppend(heap, Top.element)
    /\ visited' = Append(visited, Top.element)
    /\ table' = Raise("IndexError")
    /\ pc' = "walk_raised"
    /\ UNCHANGED <<tree, frames, emitted, records>>
    /\ UNCHANGED jsonVars

\* stack.append(element); no fields, nothing is yielded.
EnterSilent ==
    /\ Entering
    /\ ~NestedDataRaises(Top.element)
    /\ get_nested_element_data(Top.element) = <<>>
    /\ heap' = StackAppend(heap, Top.element)
    /\ visited' = Append(visited, Top.element)
    /\ frames' = SetNext(1)
    /\ UNCHANGED <<tree, emitted, records, table, pc>>
    /\ UNCHANGED jsonVars

\* stack.append(element); yield stack.copy(), fields; the comprehension of
\* `records` tests the pair it is handed.
EnterYield ==
    /\ Entering
    /\ ~NestedDataRaises(Top.element)
    /\ get_nested_element_data(Top.element) # <<>>
    /\ LET copied == stack_copy(StackAppend(heap, Top.element), StackRef)
           entry == [path |-> copied.ref, fields |-> get_nested_element_data(Top.element)]
           path == copied.heap[copied.ref]
       IN /\ heap' = copied.heap
          /\ visited' = Append(visited, Top.element)
          /\ emitted' = Append(emitted, entry)
          /\ \/ /\ FilterRaises(path)
                /\ table' = Raise("IndexError")
                /\ pc' = "filter_raised"
                /\ UNCHANGED <<frames, records>>
             \/ /\ ~FilterRaises(path)
                /\ FilterKeeps(path)
                /\ records' = Append(records, entry)
                /\ frames' = SetNext(1)
                /\ UNCHANGED <<table, pc>>
             \/ /\ ~FilterRaises(path)
                /\ ~FilterKeeps(path)
                /\ frames' = SetNext(1)
                /\ UNCHANGED <<records, table, pc>>
    /\ UNCHANGED tree
    /\ UNCHANGED jsonVars

\* for child in element: the next child's _traverse_xml_tree(child, stack).
Descend ==
    /\ pc = "walk" /\ frames # <<>>
    /\ Top.next \in 1..Len(Children(Top.element))
    /\ frames' = Append(SetNext(Top.next + 1),
                        [element |-> Children(Top.element)[Top.next], next |-> 0])
    /\ UNCHANGED <<tree, heap, visited, emitted, records, table, pc>>
    /\ UNCHANGED jsonVars

\* The children are exhausted: stack.pop(), and the call returns.
Return ==
    /\ pc = "walk" /\ frames # <<>>
    /\ Top.next > Len(Children(Top.element))
    /\ heap' = StackPop(heap)
    /\ frames' = SubSeq(frames, 1, Len(frames) - 1)
    /\ UNCHANGED <<tree, visited, emitted, records, table, pc>>
    /\ UNCHANGED jsonVars

\* The traversal is exhausted: the rows of `data` and the table are built.
Finish ==
    /\ pc = "walk" /\ frames = <<>>
    /\ table' = BuildTable(heap, records)
    /\ pc' = "done"
    /\ UNCHANGED <<tree, heap, frames, visited, emitted, records>>
    /\ UNCHANGED jsonVars

Next == EnterRaise \/ EnterSilent \/ EnterYield \/ Descend \/ Return \/ Finish

Spec == Init /\ [][Next]_vars

\* ------------------------------------------- claims on get_flattened_events
NumInteractions == Len(heartbeat["interactions"])
NumEvents == Len(heartbeat["events"])
Rows == all_event_data.value

\* Every interaction carries the four interaction_columns keys.
InteractionsComplete ==
    \A i \in 1..NumInteractions : \A j \in 1..Len(interaction_columns) :
        interaction_columns[j] \in DOMAIN heartbeat["interactions"][i]

\* Every event carries its four required keys ("value" is optional).
EventsComplete ==
    \A i \in 1..NumEvents : EventRequiredKeys \subseteq DOMAIN heartbeat["events"][i]

\* C1: a heartbeat with n interactions and m events, each carrying all
\* required fields, is flattened to exactly n + m rows.  Stated of the calls
\* that return, so that it is the row count that decides it.
C1_OneRowPerEntry ==
    (pc = "done" /\ InteractionsComplete /\ EventsComplete /\ IsOk(all_event_data))
        => Len(Rows) = NumInteractions + NumEvents

\* C2: every returned row has the columns of all_event_columns (11), an
\* interaction row with its four own fields populated and the six event
\* fields null, an event row with the four interaction fields null.
C2_UnionSchema ==
    (pc = "done" /\ IsOk(all_event_data)) =>
        \A r \in 1..Len(Rows) :
            /\ Len(Rows[r]) = Len(all_event_columns)
            /\ Rows[r][1] = S("interaction") =>
                   /\ \A c \in 2..5 : Rows[r][c] # None
                   /\ \A c \in 6..11 : Rows[r][c] = None
            /\ Rows[r][1] = S("event") => \A c \in 2..5 : Rows[r][c] = None

\* C4: an event without "value" yields null from/to, an event whose "value"
\* has only "from" yields that from and a null to; neither is an error.
C4_OptionalValue ==
    (pc = "done" /\ InteractionsComplete /\ EventsComplete) =>
        /\ IsOk(all_event_data)
        /\ \A k \in 1..NumEvents :
              LET ev == heartbeat["events"][k]
                  row == Rows[Len(Rows) - NumEvents + k]
                  n == Len(row)
              IN /\ "value" \notin DOMAIN ev =>
                       row[n - 1] = None /\ row[n] = None
                 /\ ("value" \in DOMAIN ev /\ DOMAIN ev["value"] = {"from"}) =>
                       row[n - 1] = ev["value"]["from"] /\ row[n] = None

\* The number of returned rows whose discriminator is "interaction".
NumInteractionRows == Cardinality({r \in 1..Len(Rows) : Rows[r][1] = S("interaction")})

\* C10: the returned rows are grouped by kind: the interaction rows first,
\* in the order of the source "interactions" list, then the event rows, in
\* the order of the source "events" list.
C10_GroupedByKind ==
    (pc = "done" /\ IsOk(all_event_data)) =>
        /\ \A r \in 1..Len(Rows) :
              Rows[r][1] = (IF r <= NumInteractionRows THEN S("interaction") ELSE S("event"))
        /\ \A p, q \in 1..NumInteractionRows : p < q => Rows[p][2].int <= Rows[q][2].int
        /\ \A p \in 1..NumInteractionRows :
              /\ Rows[p][2].int + 1 \in 1..NumInteractions
              /\ Rows[p][4] = heartbeat["interactions"][Rows[p][2].int + 1][Rows[p][3].str]
        /\ \A i \in 1..NumInteractions : \E p \in 1..NumInteractionRows : Rows[p][2] = I(i - 1)
        /\ Len(Rows) - NumInteractionRows = NumEvents
        /\ \A k \in 1..NumEvents :
              LET row == Rows[NumInteractionRows + k]
              IN SubSeq(row, Len(row) - 5, Len(row) - 2) =
                    <<heartbeat["events"][k]["type"], heartbeat["events"][k]["action"],
                      heartbeat["events"][k]["time"], heartbeat["events"][k]["itemId"]>>

\* Two different interactions and two different events were flattened.
C10_Witness ==
    /\ pc = "done" /\ IsOk(all_event_data)
    /\ NumInteractions = 2 /\ heartbeat["interactions"][1] # heartbeat["interactions"][2]
    /\ NumEvents = 2 /\ heartbeat["events"][1] # heartbeat["events"][2]
    /\ Len(Rows) > NumEvents

\* ---------------------------------- claims on get_examinee_event_data_frame
Sessions == data["TestSessions"]
NumExamineeColumns == Len(examinee_columns)

\* C3: every output row whose session sequence number is i carries the
\* scalar metadata of session i itself.
C3_OwnMetadata ==
    (pc = "done" /\ IsOk(df)) =>
        \A r \in 1..Len(df.value.rows) :
            LET row == df.value.rows[r]
            IN SubSeq(row, 2, 1 + NumExamineeColumns)
                   = ItemValues(ScalarItems(Sessions[row[1].int + 1]))

\* The rows get_flattened_events returns for the first HeartBeats entry of
\* each session, each prefixed with the session's zero-based index.
NumberedEvents ==
    Concat([i \in 1..Len(Sessions) |->
        LET events == get_flattened_events(FirstHeartBeat(Sessions[i])).value
        IN [e \in 1..Len(events) |-> <<I(i - 1)>> \o events[e]]])

\* A row without its examinee metadata columns.
DropMetadata(row) ==
    <<row[1]>> \o SubSeq(row, 2 + NumExamineeColumns, Len(row))

\* C9: the table holds, session by session in input order, exactly the rows
\* of each session's first HeartBeats entry, prefixed with the session's
\* index; further entries add nothing and raise nothing; the columns are
\* [session_id] + examinee columns + union event columns.
C9_SessionRows ==
    pc = "done" =>
        /\ IsOk(df)
        /\ df.value.columns = <<"session_id">> \o examinee_columns \o all_event_columns
        /\ [r \in 1..Len(df.value.rows) |-> DropMetadata(df.value.rows[r])] = NumberedEvents

\* ------------------------------------------------ claims on the XML part
RECURSIVE Preorder(_)
\* The elements of the subtree of e: e, then its children's subtrees in order.
Preorder(e) ==
    <<e>> \o Concat([j \in 1..Len(Children(e)) |-> Preorder(Children(e)[j])])

RECURSIVE PathTo(_)
\* The ancestors of e from the root down, e included.
PathTo(e) == IF tree.parent[e] = 0 THEN <<e>> ELSE Append(PathTo(tree.parent[e]), e)

HasTextChild(e) == \E c \in Elements : tree.parent[c] = e /\ HasText(c)

PathOf(entry) == heap[entry.path]
EmittingElement(entry) == PathOf(entry)[Len(PathOf(entry))]

\* The traversal is over: it ran to its end, or an exception left it.
TraversalEnded == pc = "walk_raised" \/ (pc \in {"walk", "done"} /\ frames = <<>>)

\* The call of extract_time_session_events is over.
CallEnded == pc \in {"done", "walk_raised", "filter_raised"}

\* C6: the traversal of any tree visits every element exactly once in
\* preorder, yields one pair for exactly the elements with a direct child of
\* non-empty text, and every yielded path runs from the root down to the
\* yielding element, each element a child of the one before.
C6_PreorderWalk ==
    TraversalEnded =>
        /\ visited = Preorder(1)
        /\ [k \in 1..Len(emitted) |-> EmittingElement(emitted[k])]
               = SelectSeq(Preorder(1), HasTextChild)
        /\ \A k \in 1..Len(emitted) : PathOf(emitted[k]) = PathTo(EmittingElement(emitted[k]))

\* C7: a yielded path is a snapshot: no later step of the traversal changes
\* a pair already yielded, or the elements of its path.
C7_PathSnapshot ==
    [][\A k \in 1..Len(emitted) :
          /\ Len(emitted') >= k
          /\ emitted'[k] = emitted[k]
          /\ heap'[emitted[k].path] = heap[emitted[k].path]]_vars

\* The call is over, and the stack a path was copied from has been emptied
\* again while the path is still whole.
C7_Witness ==
    /\ pc = "done"
    /\ emitted # <<>>
    /\ heap[StackRef] = <<>>
    /\ \E k \in 1..Len(emitted) : Len(PathOf(emitted[k])) >= 2

\* The tag's name without its namespace part, if it has one.
LocalName(tag) == tag[Len(tag)]

HasChildTagged(e, name) ==
    \E c \in Elements : tree.parent[c] = e /\ LocalName(tree.tag[c]) = name

FirstChildTagged(e, name) ==
    CHOOSE c \in Elements :
        /\ tree.parent[c] = e /\ LocalName(tree.tag[c]) = name
        /\ \A d \in Elements :
              (tree.parent[d] = e /\ LocalName(tree.tag[d]) = name) => c <= d

\* The top ancestor has no CustomerResultData child, or that child has no
\* CustomerName child.
NameLookupFails(top) ==
    \/ ~HasChildTagged(top, "CustomerResultData")
    \/ ~HasChildTagged(FirstChildTagged(top, "CustomerResultData"), "CustomerName")

\* C8: for a kept record whose top ancestor lacks the CustomerResultData
\* child, or whose CustomerResultData lacks the CustomerName child,
\* get_customer_name raises, and extract_time_session_events ends in that
\* error instead of returning a table.
C8_LookupFailsLoudly ==
    \A r \in 1..Len(records) :
        NameLookupFails(PathOf(records[r])[1]) =>
            /\ IsError(get_customer_name(heap, records[r]))
            /\ pc = "done" => IsError(table)

\* A record was kept, its name lookup found no child, and the call ended in
\* StopIteration.
C8_Witness ==
    /\ pc = "done"
    /\ records # <<>>
    /\ NameLookupFails(PathOf(records[1])[1])
    /\ table.error = "StopIteration"

\* The path of e without the root has the tags of SessionEventPath.
MatchesBelowRoot(e) ==
    [j \in 1..(Len(PathTo(e)) - 1) |-> LocalName(tree.tag[PathTo(e)[j + 1]])]
        = SessionEventPath

\* The elements whose record the claim says is kept.
ClaimedKept(e) == HasTextChild(e) /\ MatchesBelowRoot(e)

\* C5: extract_time_session_events keeps exactly the records whose path
\* without the root has the tags CustomerRecord, CustomerEventData,
\* TestSessionEvent, and returns an empty table, not an error, when there
\* is none.
C5_PathFilter ==
    CallEnded =>
        /\ pc = "done" =>
              [r \in 1..Len(records) |-> EmittingElement(records[r])]
                  = SelectSeq(Preorder(1), ClaimedKept)
        /\ SelectSeq(Preorder(1), ClaimedKept) = <<>> =>
              IsOk(table) /\ table.value.rows = <<>>

====
